---- MODULE Spec2Model ----
(***************************************************************************)
(* Module management subsystem of the EZ Tauri CLI (commands/modules.js).  *)
(*                                                                         *)
(* The state is the generated project's directory as the commands see it:  *)
(* the module manifests under modules/, module_config.json, the per-module *)
(* source trees under src-tauri/src/modules/, the default-features array   *)
(* of src-tauri/Cargo.toml, src-tauri/src/modules/mod.rs and the           *)
(* "mod modules;" declaration of src-tauri/src/lib.rs.  Every command is   *)
(* one action that runs the whole handler.                                 *)
(*                                                                         *)
(* Module ids are the numbers 1..NumModules; their numeric order stands    *)
(* for the strcmp order of the directory names (the order in which         *)
(* readdirSync lists modules/).  Id 0 is a name with no manifest.          *)
(***************************************************************************)
EXTENDS Integers, Sequences, FiniteSets, TLC

\* Bounds of the model.
NumModules == 3
MaxWeight == 2
MaxEdits == 1
MaxStored == 1
NumProcs == 2
MaxLines == 3

VARIABLES
    manifests,   \* modules/<id>/module.json, by id
    config,      \* module_config.json: its entries in key order
    configFile,  \* TRUE iff module_config.json exists
    moduleDirs,  \* ids whose src-tauri/src/modules/<id> directory exists
    cargo,       \* src-tauri/Cargo.toml: [exists, region, features]
    libRs,       \* src-tauri/src/lib.rs: [exists, decls of "mod modules;"]
    modRs,       \* src-tauri/src/modules/mod.rs: [exists, lines]
    last,        \* the last command and what it reported
    edits,       \* manual edits made so far
    snapshot,    \* observer: artifacts seen at an earlier point
    procs,       \* the invocations under way, statement by statement
    cargoText    \* the lines of a Cargo.toml given to updateCargoToml

vars == <<manifests, config, configFile, moduleDirs, cargo, libRs, modRs,
          last, edits, snapshot, procs, cargoText>>

ModuleIds == 1..NumModules
NoManifestId == 0
CommandIds == ModuleIds \cup {NoManifestId}

----------------------------------------------------------------------------
\* Manifests.

DepEntry == [module_id : ModuleIds, optional : BOOLEAN]

RECURSIVE SeqsOfLen(_, _)
SeqsOfLen(S, n) ==
    IF n = 0 THEN {<<>>}
    ELSE {Append(s, x) : s \in SeqsOfLen(S, n - 1), x \in S}

\* manifest.config_schema: the same in every manifest of the model, and so
\* kept out of the state.
ConfigSchema ==
    [port |-> [field_type |-> "number", required |-> FALSE],
     debug |-> [field_type |-> "boolean", required |-> FALSE]]

MkManifest(cd, deps) == [can_disable |-> cd, dependencies |-> deps]

\* What a manifest adds to the size of a registry: one for every dependency
\* entry, one more for an optional one, one for can_disable = false.
DepsWeight(deps) ==
    Len(deps) + Cardinality({i \in 1..Len(deps) : deps[i].optional})

DepLists(w) ==
    {d \in UNION {SeqsOfLen(DepEntry, n) : n \in 0..w} : DepsWeight(d) <= w}

\* All registries over the ids `ids` of weight at most w, as sets of
\* <<id, manifest>> pairs.
RECURSIVE RegistriesOver(_, _)
RegistriesOver(ids, w) ==
    IF ids = {} THEN {{}}
    ELSE LET id == CHOOSE i \in ids : \A j \in ids : i <= j
         IN UNION {
              UNION {
                {r \cup {<<id, MkManifest(cd, d)>>} :
                    r \in RegistriesOver(ids \ {id},
                            w - DepsWeight(d) - (IF cd THEN 0 ELSE 1))}
                : cd \in {c \in BOOLEAN : c \/ DepsWeight(d) < w}}
              : d \in DepLists(w)}

AsFunction(pairs) ==
    [id \in {p[1] : p \in pairs} |-> (CHOOSE p \in pairs : p[1] = id)[2]]

Registries == {AsFunction(r) : r \in RegistriesOver(ModuleIds, MaxWeight)}

----------------------------------------------------------------------------
\* Helpers of modules.js.

NoSettings == [k \in {} |-> ""]

NewEntry(id) ==
    [module_id |-> id, enabled |-> FALSE, config |-> NoSettings]

\* loadModuleConfig: a missing file is the empty map.
loadModuleConfig == IF configFile THEN config ELSE <<>>

HasKey(cfg, id) == \E i \in 1..Len(cfg) : cfg[i].module_id = id

EntryOf(cfg, id) == cfg[CHOOSE i \in 1..Len(cfg) : cfg[i].module_id = id]

\* depConfig?.enabled
IsEnabled(cfg, id) == HasKey(cfg, id) /\ EntryOf(cfg, id).enabled

\* loadModuleManifest: present exactly for the ids with a module.json.
HasManifest(id) == id \in DOMAIN manifests

\* getAvailableModules: the ids in directory (strcmp) order.
RECURSIVE SortedSeq(_)
SortedSeq(S) ==
    IF S = {} THEN <<>>
    ELSE LET m == CHOOSE x \in S : \A y \in S : x <= y
         IN <<m>> \o SortedSeq(S \ {m})

getAvailableModules == SortedSeq(DOMAIN manifests)

\* (mutant) no module is found installed.
getInstalledModules_None == {}

\* (mutant) every available module is found installed.
getInstalledModules_All == DOMAIN manifests

\* getInstalledModules: the available modules whose source tree exists.
getInstalledModules == {id \in DOMAIN manifests : id \in moduleDirs}


\* Object.keys(config).filter(id => config[id].enabled): key order.
enabledModules(cfg) ==
    LET on == SelectSeq(cfg, LAMBDA e : e.enabled)
    IN [i \in 1..Len(on) |-> on[i].module_id]

\* `"module-${id}"`
FeatureFlag(id) == [prefix |-> "module-", id |-> id]

\* An entry of the default-features array that no module stands for.
CustomFlag == [prefix |-> "custom", id |-> 0]

\* enabledModules.map(id => `"module-${id}"`)
featureFlags(enabled) == [i \in 1..Len(enabled) |-> FeatureFlag(enabled[i])]

\* (mutant) the new flags are added to the old contents of the region.
updateCargoToml_Appends(c, enabled) ==
    IF ~c.exists THEN c
    ELSE IF c.region
    THEN [c EXCEPT !.features = c.features \o featureFlags(enabled)]
    ELSE c

\* updateCargoToml: the new Cargo.toml.  The region between "default = ["
\* and the next "]" is replaced as a whole; without the file or the region
\* nothing is written.
updateCargoToml(c, enabled) ==
    IF ~c.exists THEN c
    ELSE IF c.region THEN [c EXCEPT !.features = featureFlags(enabled)]
    ELSE c

\* What updateCargoToml returns.
updateCargoTomlOk(c) == c.exists /\ c.region

\* (mutant) the declaration is added without the old ones being removed.
updateModExports_Appends(lib, enabled) ==
    IF ~lib.exists THEN lib
    ELSE [lib EXCEPT !.decls = IF Len(enabled) > 0 THEN lib.decls + 1
                               ELSE lib.decls]

\* updateModExports: every "mod modules;" is removed, and one is put back
\* when a module is enabled.
updateModExports(lib, enabled) ==
    IF ~lib.exists THEN lib
    ELSE [lib EXCEPT !.decls = IF Len(enabled) > 0 THEN 1 ELSE 0]

\* The lines of mod.rs.
ModLine(id) == [cfg |-> FeatureFlag(id), item |-> "pub mod", id |-> id]
UseLine(id) == [cfg |-> FeatureFlag(id), item |-> "pub use", id |-> id]

modContent(enabled) ==
    [i \in 1..Len(enabled) |-> ModLine(enabled[i])]
        \o [i \in 1..Len(enabled) |-> UseLine(enabled[i])]

NoModRs == [exists |-> FALSE, lines |-> <<>>]

\* (mutant) with nothing enabled mod.rs is left as it is.
createModulesModFile_KeepsFile(dirs, enabled) ==
    IF Len(enabled) = 0
    THEN [dirs |-> dirs, modRs |-> modRs]
    ELSE [dirs |-> dirs,
          modRs |-> [exists |-> TRUE, lines |-> modContent(enabled)]]

\* createModulesModFile: the module directories and mod.rs afterwards.
\* With nothing enabled the whole src-tauri/src/modules directory goes.
createModulesModFile(dirs, enabled) ==
    IF Len(enabled) = 0
    THEN [dirs |-> {}, modRs |-> NoModRs]
    ELSE [dirs |-> dirs,
          modRs |-> [exists |-> TRUE, lines |-> modContent(enabled)]]

\* (mutant) nothing is copied.
copyModuleFiles_Nothing(dirs, id) == dirs

\* (mutant) nothing is removed.
removeModuleFiles_Nothing(dirs, id) == dirs

\* copyModuleFiles / removeModuleFiles
copyModuleFiles(dirs, id) == dirs \cup {id}
removeModuleFiles(dirs, id) == dirs \ {id}

\* (mutant) the can_disable check is skipped.
canDisable_Always(id) == TRUE

\* manifest.can_disable
canDisable(id) == manifests[id].can_disable

\* (mutant) optional dependencies stop the install too.
UnmetDeps_ChecksOptional(id, installed, cfg) ==
    LET deps == manifests[id].dependencies
    IN {i \in 1..Len(deps) :
          (deps[i].module_id \notin installed
                \/ ~IsEnabled(cfg, deps[i].module_id))}

\* (mutant) a dependency whose own dependencies are unmet stops the install.
UnmetDeps_Transitive(id, installed, cfg) ==
    LET deps == manifests[id].dependencies
        Unmet(d) == d \notin installed \/ ~IsEnabled(cfg, d)
    IN {i \in 1..Len(deps) :
          /\ ~deps[i].optional
          /\ \/ Unmet(deps[i].module_id)
             \/ \E j \in 1..Len(manifests[deps[i].module_id].dependencies) :
                   /\ ~manifests[deps[i].module_id].dependencies[j].optional
                   /\ Unmet(manifests[deps[i].module_id].dependencies[j].module_id)}

\* (mutant) a dependency that is installed counts as met, enabled or not.
UnmetDeps_InstalledOnly(id, installed, cfg) ==
    LET deps == manifests[id].dependencies
    IN {i \in 1..Len(deps) :
          /\ ~deps[i].optional
          /\ deps[i].module_id \notin installed}

\* The dependency loop of installModule: the positions of the entries
\* that stop the install.
UnmetDeps(id, installed, cfg) ==
    LET deps == manifests[id].dependencies
    IN {i \in 1..Len(deps) :
          /\ ~deps[i].optional
          /\ (deps[i].module_id \notin installed
                \/ ~IsEnabled(cfg, deps[i].module_id))}

MinOf(S) == CHOOSE x \in S : \A y \in S : x <= y

\* (mutant) the last unmet dependency is named.
BlockingDep_Last(id, installed, cfg) ==
    LET U == UnmetDeps(id, installed, cfg)
    IN manifests[id].dependencies[CHOOSE x \in U : \A y \in U : y <= x].module_id

\* The dependency the install is refused for: the first unmet one.
BlockingDep(id, installed, cfg) ==
    manifests[id].dependencies[MinOf(UnmetDeps(id, installed, cfg))].module_id

\* (mutant) no dependent is looked for.
Dependents_None(id, installed, cfg) == {}

\* The dependents loop of uninstallModule: the modules that stop it.
Dependents(id, installed, cfg) ==
    {o \in DOMAIN manifests :
        /\ IsEnabled(cfg, o)
        /\ o \in installed
        /\ \E i \in 1..Len(manifests[o].dependencies) :
              /\ ~manifests[o].dependencies[i].optional
              /\ manifests[o].dependencies[i].module_id = id}

\* (mutant) the last dependent in directory order is named.
BlockingDependent_Last(id, installed, cfg) ==
    LET D == Dependents(id, installed, cfg)
    IN CHOOSE x \in D : \A y \in D : y <= x

\* The first of them in the order of getAvailableModules.
BlockingDependent(id, installed, cfg) ==
    LET av == getAvailableModules
        D == Dependents(id, installed, cfg)
    IN av[MinOf({i \in 1..Len(av) : av[i] \in D})]

\* (mutant) a new entry is added as it is created, not enabled.
EnableEntry_AddsDisabled(cfg, id) ==
    IF HasKey(cfg, id) THEN cfg ELSE Append(cfg, NewEntry(id))

\* config[moduleId] = {...} if absent; config[moduleId].enabled = true
EnableEntry(cfg, id) ==
    IF HasKey(cfg, id)
    THEN [i \in 1..Len(cfg) |->
            IF cfg[i].module_id = id THEN [cfg[i] EXCEPT !.enabled = TRUE]
            ELSE cfg[i]]
    ELSE Append(cfg, [NewEntry(id) EXCEPT !.enabled = TRUE])

\* (mutant) the entry is kept and switched off.
DeleteEntry_Disables(cfg, id) ==
    [i \in 1..Len(cfg) |->
        IF cfg[i].module_id = id THEN [cfg[i] EXCEPT !.enabled = FALSE]
        ELSE cfg[i]]

\* delete config[moduleId]
DeleteEntry(cfg, id) == SelectSeq(cfg, LAMBDA e : e.module_id # id)

\* The status shown by listModules and showModuleInfo.
Status(id, installed, cfg) ==
    IF IsEnabled(cfg, id) /\ id \in installed THEN "ENABLED"
    ELSE IF id \in installed THEN "INSTALLED"
    ELSE "AVAILABLE"

NoOutput == [i \in {} |-> ""]

Report(cmd, id, outcome, detail) ==
    [cmd |-> cmd, id |-> id, outcome |-> outcome, detail |-> detail,
     shown |-> NoOutput, warned |-> {}]

\* What updateCargoToml and updateModExports log when they write nothing
\* and return false.
StepWarnings(c, lib) ==
    (IF ~c.exists THEN {"CargoTomlNotFound"}
     ELSE IF ~c.region THEN {"FeaturesSectionNotFound"}
     ELSE {})
        \cup (IF ~lib.exists THEN {"LibRsNotFound"} ELSE {})

\* The report of a command that has gone through its writes: the callers
\* do not look at what the steps return.
ReportWritten(cmd, id) ==
    [Report(cmd, id, "ok", 0) EXCEPT !.warned = StepWarnings(cargo, libRs)]

\* The three artifact writes and the save that end install and uninstall.
WriteAll(dirs, cfg) ==
    LET enabled == enabledModules(cfg)
        made == createModulesModFile(dirs, enabled)
    IN /\ cargo' = updateCargoToml(cargo, enabled)
       /\ libRs' = updateModExports(libRs, enabled)
       /\ moduleDirs' = made.dirs
       /\ modRs' = made.modRs
       /\ config' = cfg
       /\ configFile' = TRUE

Files == <<config, configFile, moduleDirs, cargo, libRs, modRs>>

----------------------------------------------------------------------------
\* The commands.

\* (mutant) the source tree is copied before the dependencies are checked.
installModule_CopiesFirst(id) ==
    LET installed == getInstalledModules
        cfg == loadModuleConfig
    IN /\ UNCHANGED <<manifests, cargoText, procs, edits, snapshot>>
       /\ IF ~HasManifest(id)
          THEN /\ last' = Report("install", id, "ManifestNotFound", 0)
               /\ UNCHANGED Files
          ELSE IF id \in installed
          THEN /\ last' = Report("install", id, "AlreadyInstalled", 0)
               /\ UNCHANGED Files
          ELSE IF UnmetDeps(id, installed, cfg) # {}
          THEN /\ last' = Report("install", id, "DependencyMissing",
                                 BlockingDep(id, installed, cfg))
               /\ moduleDirs' = copyModuleFiles(moduleDirs, id)
               /\ UNCHANGED <<config, configFile, cargo, libRs, modRs>>
          ELSE /\ WriteAll(copyModuleFiles(moduleDirs, id), EnableEntry(cfg, id))
               /\ last' = ReportWritten("install", id)

installModule(id) ==
    LET installed == getInstalledModules
        cfg == loadModuleConfig
    IN /\ UNCHANGED <<manifests, cargoText, procs, edits, snapshot>>
       /\ IF ~HasManifest(id)
          THEN /\ last' = Report("install", id, "ManifestNotFound", 0)
               /\ UNCHANGED Files
          ELSE IF id \in installed
          THEN /\ last' = Report("install", id, "AlreadyInstalled", 0)
               /\ UNCHANGED Files
          ELSE IF UnmetDeps(id, installed, cfg) # {}
          THEN /\ last' = Report("install", id, "DependencyMissing",
                                 BlockingDep(id, installed, cfg))
               /\ UNCHANGED Files
          ELSE /\ WriteAll(copyModuleFiles(moduleDirs, id), EnableEntry(cfg, id))
               /\ last' = ReportWritten("install", id)

uninstallModule(id) ==
    LET installed == getInstalledModules
        cfg == loadModuleConfig
    IN /\ UNCHANGED <<manifests, cargoText, procs, edits, snapshot>>
       /\ IF ~HasManifest(id)
          THEN /\ last' = Report("uninstall", id, "ManifestNotFound", 0)
               /\ UNCHANGED Files
          ELSE IF id \notin installed
          THEN /\ last' = Report("uninstall", id, "NotInstalled", 0)
               /\ UNCHANGED Files
          ELSE IF ~canDisable(id)
          THEN /\ last' = Report("uninstall", id, "ProtectedModule", 0)
               /\ UNCHANGED Files
          ELSE IF Dependents(id, installed, cfg) # {}
          THEN /\ last' = Report("uninstall", id, "ReverseDependencyExists",
                                 BlockingDependent(id, installed, cfg))
               /\ UNCHANGED Files
          ELSE /\ WriteAll(removeModuleFiles(moduleDirs, id), DeleteEntry(cfg, id))
               /\ last' = ReportWritten("uninstall", id)

syncModules ==
    LET cfg == loadModuleConfig
        enabled == enabledModules(cfg)
        made == createModulesModFile(moduleDirs, enabled)
    IN /\ cargo' = updateCargoToml(cargo, enabled)
       /\ libRs' = updateModExports(libRs, enabled)
       /\ moduleDirs' = made.dirs
       /\ modRs' = made.modRs
       /\ last' = ReportWritten("sync", 0)
       /\ UNCHANGED <<manifests, cargoText, procs, config, configFile, edits, snapshot>>


\* The values given on the command line.
InputKeys == {"port", "nokey"}
InputValues == {"8080", "8080abc", "TRUE"}

\* configure is run on the first module and on a name with no manifest.
ConfiguredIds == {NoManifestId, MinOf(ModuleIds)}

\* value.toLowerCase()
ToLowerCase(v) == IF v = "TRUE" THEN "true" ELSE v

\* parseFloat(value): the number the text starts with, whatever follows it;
\* NaN for a text that starts with no number.
ParseFloat(v) ==
    IF v \in {"8080", "8080abc"}
    THEN [nan |-> FALSE, n |-> 8080]
    ELSE [nan |-> TRUE, n |-> 0]

\* The switch on schema.field_type: the parsed value, or the thrown error.
Coerce(field_type, value) ==
    IF field_type = "boolean"
    THEN [ok |-> TRUE, value |-> (ToLowerCase(value) = "true")]
    ELSE IF field_type = "number"
    THEN IF ParseFloat(value).nan
         THEN [ok |-> FALSE, value |-> value]
         ELSE [ok |-> TRUE, value |-> ParseFloat(value).n]
    ELSE [ok |-> TRUE, value |-> value]

\* (mutant) the entry is switched on as the setting is stored.
StoreSetting_Enables(cfg, id, key, value) ==
    LET c1 == IF HasKey(cfg, id) THEN cfg ELSE Append(cfg, NewEntry(id))
    IN [i \in 1..Len(c1) |->
          IF c1[i].module_id = id
          THEN [c1[i] EXCEPT !.enabled = TRUE,
                             !.config = [k \in DOMAIN c1[i].config \cup {key} |->
                                  IF k = key THEN value ELSE c1[i].config[k]]]
          ELSE c1[i]]

\* config[moduleId].config[key] = parsedValue, on the entry added if absent.
StoreSetting(cfg, id, key, value) ==
    LET c1 == IF HasKey(cfg, id) THEN cfg ELSE Append(cfg, NewEntry(id))
    IN [i \in 1..Len(c1) |->
          IF c1[i].module_id = id
          THEN [c1[i] EXCEPT !.config =
                  [k \in DOMAIN c1[i].config \cup {key} |->
                      IF k = key THEN value ELSE c1[i].config[k]]]
          ELSE c1[i]]

\* The number of settings a config holds (bounded by MaxStored).
RECURSIVE Stored(_)
Stored(cfg) ==
    IF cfg = <<>> THEN 0
    ELSE Cardinality(DOMAIN Head(cfg).config) + Stored(Tail(cfg))

\* configure with the key looked up before the installed check.
configureModule_KeyFirst(id, key, value) ==
    LET installed == getInstalledModules
        cfg == loadModuleConfig
    IN /\ UNCHANGED <<manifests, cargoText, procs, moduleDirs, cargo, libRs, modRs, edits, snapshot>>
       /\ IF ~HasManifest(id)
          THEN /\ last' = Report("configure", id, "ManifestNotFound", 0)
               /\ UNCHANGED <<config, configFile>>
          ELSE IF key \notin DOMAIN ConfigSchema
          THEN /\ last' = Report("configure", id, "ConfigKeyInvalid", 0)
               /\ UNCHANGED <<config, configFile>>
          ELSE IF id \notin installed
          THEN /\ last' = Report("configure", id, "NotInstalled", 0)
               /\ UNCHANGED <<config, configFile>>
          ELSE LET parsed == Coerce(ConfigSchema[key].field_type, value)
               IN IF ~parsed.ok
                  THEN /\ last' = Report("configure", id, "ValueCoercionError", 0)
                       /\ UNCHANGED <<config, configFile>>
                  ELSE /\ Stored(StoreSetting(cfg, id, key, parsed.value)) <= MaxStored
                       /\ config' = StoreSetting(cfg, id, key, parsed.value)
                       /\ configFile' = TRUE
                       /\ last' = Report("configure", id, "ok", 0)

\* configureModule: the checks in order, then the store and the save.
configureModule(id, key, value) ==
    LET installed == getInstalledModules
        cfg == loadModuleConfig
    IN /\ UNCHANGED <<manifests, cargoText, procs, moduleDirs, cargo, libRs, modRs, edits, snapshot>>
       /\ IF ~HasManifest(id)
          THEN /\ last' = Report("configure", id, "ManifestNotFound", 0)
               /\ UNCHANGED <<config, configFile>>
          ELSE IF id \notin installed
          THEN /\ last' = Report("configure", id, "NotInstalled", 0)
               /\ UNCHANGED <<config, configFile>>
          ELSE IF key \notin DOMAIN ConfigSchema
          THEN /\ last' = Report("configure", id, "ConfigKeyInvalid", 0)
               /\ UNCHANGED <<config, configFile>>
          ELSE LET parsed == Coerce(ConfigSchema[key].field_type, value)
               IN IF ~parsed.ok
                  THEN /\ last' = Report("configure", id, "ValueCoercionError", 0)
                       /\ UNCHANGED <<config, configFile>>
                  ELSE /\ Stored(StoreSetting(cfg, id, key, parsed.value)) <= MaxStored
                       /\ config' = StoreSetting(cfg, id, key, parsed.value)
                       /\ configFile' = TRUE
                       /\ last' = Report("configure", id, "ok", 0)

listModules ==
    /\ last' = [Report("list", 0, "ok", 0) EXCEPT !.shown =
                  [id \in DOMAIN manifests |->
                      Status(id, getInstalledModules, loadModuleConfig)]]
    /\ UNCHANGED <<manifests, cargoText, procs, edits, snapshot>>
    /\ UNCHANGED Files

showModuleInfo(id) ==
    /\ IF ~HasManifest(id)
       THEN last' = Report("info", id, "ManifestNotFound", 0)
       ELSE last' = [Report("info", id, "ok", 0) EXCEPT !.shown =
                       [i \in {id} |->
                           Status(id, getInstalledModules, loadModuleConfig)]]
    /\ UNCHANGED <<manifests, cargoText, procs, edits, snapshot>>
    /\ UNCHANGED Files

----------------------------------------------------------------------------
\* The project right after creation: no module installed, no
\* module_config.json, an empty default-features array.

NoSnapshot == [taken |-> FALSE]

\* The OS processes, each of which runs one command and exits; Idle is one
\* that has not started.
ProcIds == 1..NumProcs

Idle == [pc |-> 0, cmd |-> "none", id |-> 0, cfg |-> <<>>, result |-> "none"]

\* The files of a project in which no module command has run yet.
NewProject ==
    /\ config = <<>>
    /\ configFile = FALSE
    /\ moduleDirs = {}
    /\ cargo = [exists |-> TRUE, region |-> TRUE, features |-> <<>>]
    /\ libRs = [exists |-> TRUE, decls |-> 0]
    /\ modRs = NoModRs
    /\ last = Report("create", 0, "ok", 0)
    /\ edits = 0
    /\ snapshot = NoSnapshot
    /\ procs = [p \in ProcIds |-> Idle]

Init ==
    /\ manifests \in Registries
    /\ NewProject
    /\ cargoText = <<>>

Command ==
    \/ \E id \in CommandIds : installModule(id)
    \/ \E id \in CommandIds : uninstallModule(id)
    \/ \E id \in ConfiguredIds, key \in InputKeys, value \in InputValues :
          configureModule(id, key, value)
    \/ syncModules

View ==
    \/ listModules
    \/ \E id \in CommandIds : showModuleInfo(id)

----------------------------------------------------------------------------
\* Edits made by hand between two commands (the commands are expected to
\* tolerate them); at most MaxEdits of them in a behaviour.

HandLine == [cfg |-> CustomFlag, item |-> "pub mod", id |-> 0]

Edited ==
    /\ edits < MaxEdits
    /\ edits' = edits + 1
    /\ last' = Report("edit", 0, "ok", 0)
    /\ UNCHANGED <<manifests, cargoText, procs, snapshot>>

\* module_config.json is deleted.
DeleteConfigFile ==
    /\ Edited
    /\ configFile
    /\ config' = <<>>
    /\ configFile' = FALSE
    /\ UNCHANGED <<moduleDirs, cargo, libRs, modRs>>

\* The enabled flag of an entry is flipped.
EditEnabled(id) ==
    /\ Edited
    /\ configFile
    /\ HasKey(config, id)
    /\ config' = [i \in 1..Len(config) |->
                    IF config[i].module_id = id
                    THEN [config[i] EXCEPT !.enabled = ~config[i].enabled]
                    ELSE config[i]]
    /\ UNCHANGED <<configFile, moduleDirs, cargo, libRs, modRs>>

\* A module's source tree is deleted by hand.
RemoveModuleDir(id) ==
    /\ Edited
    /\ id \in moduleDirs
    /\ moduleDirs' = moduleDirs \ {id}
    /\ UNCHANGED <<config, configFile, cargo, libRs, modRs>>

\* A feature is added to the default-features array by hand.
EditCargoFeatures ==
    /\ Edited
    /\ cargo.exists /\ cargo.region
    /\ cargo' = [cargo EXCEPT !.features = Append(@, CustomFlag)]
    /\ UNCHANGED <<config, configFile, moduleDirs, libRs, modRs>>

\* The default array is taken out of the [features] section.
RemoveFeaturesRegion ==
    /\ Edited
    /\ cargo.exists /\ cargo.region
    /\ cargo' = [cargo EXCEPT !.region = FALSE, !.features = <<>>]
    /\ UNCHANGED <<config, configFile, moduleDirs, libRs, modRs>>

\* A declaration is added to mod.rs by hand.
EditModRs ==
    /\ Edited
    /\ modRs' = [exists |-> TRUE, lines |-> Append(modRs.lines, HandLine)]
    /\ UNCHANGED <<config, configFile, moduleDirs, cargo, libRs>>

ManualEdit ==
    \/ DeleteConfigFile
    \/ \E id \in ModuleIds : EditEnabled(id)
    \/ \E id \in ModuleIds : RemoveModuleDir(id)
    \/ EditCargoFeatures
    \/ RemoveFeaturesRegion
    \/ EditModRs

\* An observer notes the enabled set and the artifacts written for it.
EnabledSet(cfg) == {cfg[i].module_id : i \in {j \in 1..Len(cfg) : cfg[j].enabled}}

TakeSnapshot ==
    /\ ~snapshot.taken
    /\ last.cmd \in {"install", "uninstall", "sync"} /\ last.outcome = "ok"
    /\ snapshot' = [taken |-> TRUE, enabled |-> EnabledSet(loadModuleConfig),
                    features |-> cargo.features, modRs |-> modRs]
    /\ UNCHANGED <<manifests, cargoText, procs, config, configFile, moduleDirs, cargo, libRs,
                   modRs, last, edits>>

Next == Command

Spec == Init /\ [][Next]_vars


\* The commands with manual edits in between.
NextDrift == Command \/ ManualEdit

SpecDrift == Init /\ [][NextDrift]_vars

\* The commands, observed.
NextObserved == Command \/ TakeSnapshot

\* Observed on the registries one size below the bound.
InitObserved ==
    /\ Init
    /\ manifests \in {AsFunction(r) : r \in RegistriesOver(ModuleIds, MaxWeight - 1)}

SpecObserved == InitObserved /\ [][NextObserved]_vars

\* The commands with manual edits in between, and list and info.
NextView == Command \/ ManualEdit \/ View

SpecView == InitObserved /\ [][NextView]_vars

----------------------------------------------------------------------------
\* install and uninstall statement by statement: each invocation is one OS
\* process that reads and validates, then makes its writes one after the
\* other.  Processes share nothing but the files.

\* (mutant) the config file is saved before the artifacts are written.
StepOrder_SaveFirst == <<"config", "tree", "cargo", "lib", "mod">>

\* The writes of installModule and uninstallModule in the order of the
\* statements: copyModuleFiles/removeModuleFiles, updateCargoToml,
\* updateModExports, createModulesModFile, saveModuleConfig.
StepOrder == <<"tree", "cargo", "lib", "mod", "config">>

\* What the checks at the head of installModule come to.
validateInstall(id) ==
    IF ~HasManifest(id) THEN "ManifestNotFound"
    ELSE IF id \in getInstalledModules THEN "AlreadyInstalled"
    ELSE IF UnmetDeps(id, getInstalledModules, loadModuleConfig) # {}
    THEN "DependencyMissing"
    ELSE "ok"

\* What the checks at the head of uninstallModule come to.
validateUninstall(id) ==
    IF ~HasManifest(id) THEN "ManifestNotFound"
    ELSE IF id \notin getInstalledModules THEN "NotInstalled"
    ELSE IF ~canDisable(id) THEN "ProtectedModule"
    ELSE IF Dependents(id, getInstalledModules, loadModuleConfig) # {}
    THEN "ReverseDependencyExists"
    ELSE "ok"

\* (mutant) the entries on disk that the process does not hold are kept.
saveModuleConfig_Merges(mem, disk) ==
    mem \o SelectSeq(disk, LAMBDA e : ~HasKey(mem, e.module_id))

\* saveModuleConfig: the file is overwritten with the config in memory.
saveModuleConfig(mem, disk) == mem

\* The position of a process that has exited.
Exited == Len(StepOrder) + 1

Running(p) == procs[p].pc \in 1..Len(StepOrder)

\* The process as it exits with a result.
Exit(cmd, id, result) ==
    [pc |-> Exited, cmd |-> cmd, id |-> id, cfg |-> <<>>, result |-> result]

\* The writes the process has made so far.
Done(p) == SubSeq(StepOrder, 1, procs[p].pc - 1)

\* Process p starts cmd on id: it reads the manifest, the installed set and
\* the config, and either fails its checks and exits or goes on with the
\* config it will save.
Begin(p, cmd, id) ==
    LET outcome == IF cmd = "install" THEN validateInstall(id)
                   ELSE validateUninstall(id)
        cfg == loadModuleConfig
        mem == IF cmd = "install" THEN EnableEntry(cfg, id)
               ELSE DeleteEntry(cfg, id)
    IN /\ procs[p].pc = 0
       /\ IF outcome = "ok"
          THEN /\ procs' = [procs EXCEPT ![p] =
                    [pc |-> 1, cmd |-> cmd, id |-> id, cfg |-> mem,
                     result |-> "running"]]
               /\ last' = Report(cmd, id, "running", 0)
          ELSE /\ procs' = [procs EXCEPT ![p] = Exit(cmd, id, outcome)]
               /\ last' = Report(cmd, id, outcome, 0)
       /\ UNCHANGED <<manifests, cargoText, edits, snapshot>>
       /\ UNCHANGED Files

\* No invocation is under way.
Quiet == \A q \in ProcIds : ~Running(q)

\* One invocation at a time.
BeginAlone(p, cmd, id) ==
    /\ Quiet
    /\ Begin(p, cmd, id)

\* Process p makes its next write; after the last one it reports success
\* and exits.
Step(p) ==
    LET me == procs[p]
        kind == StepOrder[me.pc]
        enabled == enabledModules(me.cfg)
        made == createModulesModFile(moduleDirs, enabled)
        finished == me.pc = Len(StepOrder)
    IN /\ Running(p)
       /\ moduleDirs' =
            IF kind = "tree"
            THEN IF me.cmd = "install" THEN copyModuleFiles(moduleDirs, me.id)
                 ELSE removeModuleFiles(moduleDirs, me.id)
            ELSE IF kind = "mod" THEN made.dirs
            ELSE moduleDirs
       /\ cargo' = IF kind = "cargo" THEN updateCargoToml(cargo, enabled)
                   ELSE cargo
       /\ libRs' = IF kind = "lib" THEN updateModExports(libRs, enabled)
                   ELSE libRs
       /\ modRs' = IF kind = "mod" THEN made.modRs ELSE modRs
       /\ config' = IF kind = "config" THEN saveModuleConfig(me.cfg, config)
                    ELSE config
       /\ configFile' = IF kind = "config" THEN TRUE ELSE configFile
       /\ procs' = [procs EXCEPT ![p] =
             IF finished THEN Exit(me.cmd, me.id, "ok")
             ELSE [me EXCEPT !.pc = me.pc + 1]]
       /\ last' = IF finished THEN ReportWritten(me.cmd, me.id) ELSE last
       /\ UNCHANGED <<manifests, cargoText, edits, snapshot>>

\* Process p stops between two writes (the process is killed, the machine
\* goes down); nothing is rolled back.
Crash(p) ==
    /\ Running(p)
    /\ procs' = [procs EXCEPT ![p] = Exit(procs[p].cmd, procs[p].id, "crashed")]
    /\ last' = Report(procs[p].cmd, procs[p].id, "crashed", Len(Done(p)))
    /\ UNCHANGED <<manifests, cargoText, edits, snapshot>>
    /\ UNCHANGED Files

\* The invocations that ran before those followed statement by statement.
Sequential ==
    /\ \A q \in ProcIds : procs[q].pc = 0
    /\ \E id \in ModuleIds : installModule(id) \/ uninstallModule(id)

\* One invocation at a time, any of which may stop half way.
NextCrash ==
    \/ Sequential
    \/ \E p \in ProcIds, cmd \in {"install", "uninstall"}, id \in ModuleIds :
          BeginAlone(p, cmd, id)
    \/ \E p \in ProcIds : Step(p)
    \/ \E p \in ProcIds : Crash(p)

SpecCrash == InitObserved /\ [][NextCrash]_vars

\* Invocations that overlap in time.
NextConcurrent ==
    \/ Sequential
    \/ \E p \in ProcIds, cmd \in {"install", "uninstall"}, id \in ModuleIds :
          Begin(p, cmd, id)
    \/ \E p \in ProcIds : Step(p)

SpecConcurrent == InitObserved /\ [][NextConcurrent]_vars

----------------------------------------------------------------------------
\* updateCargoToml on the text of Cargo.toml.  The text is a sequence of
\* lines: section headers and keys with an array value.

SectionLine(name) == [kind |-> "section", name |-> name, items |-> <<>>]
ArrayLine(key, items) == [kind |-> "array", name |-> key, items |-> items]

CargoLines ==
    {SectionLine(n) : n \in {"features", "package"}}
        \cup {ArrayLine(k, i) : k \in {"default", "no-default", "members"},
                                i \in {<<>>, <<CustomFlag>>}}

CargoTexts == UNION {SeqsOfLen(CargoLines, n) : n \in 0..MaxLines}

\* /\[features\]/ matches the header of the features section.
IsFeaturesHeader(l) == l.kind = "section" /\ l.name = "features"

\* /default\s*=\s*\[/ matches a key that ends in "default" and has an
\* array value.
IsDefaultArray(l) ==
    l.kind = "array" /\ l.name \in {"default", "no-default"}

\* featuresSectionRegex: the positions of the first "[features]" and of the
\* first "default = [" after it ([\s\S]*? is lazy and crosses lines and
\* section headers); 0 when there is no match.
RegexMatch(text) ==
    LET heads == {i \in 1..Len(text) : IsFeaturesHeader(text[i])}
        h == IF heads = {} THEN 0 ELSE MinOf(heads)
        arrays == {i \in (h + 1)..Len(text) : IsDefaultArray(text[i])}
    IN IF h = 0 \/ arrays = {} THEN 0 ELSE MinOf(arrays)

\* (mutant) without a match the flags are appended to the file.
updateCargoTomlText_Appends(text, enabled) ==
    IF RegexMatch(text) = 0
    THEN [ok |-> TRUE,
          text |-> text \o <<SectionLine("features"),
                             ArrayLine("default", featureFlags(enabled))>>,
          warned |-> {}]
    ELSE [ok |-> TRUE,
          text |-> [text EXCEPT ![RegexMatch(text)].items = featureFlags(enabled)],
          warned |-> {}]

\* updateCargoToml: what it returns, the text it leaves and what it logs.
updateCargoTomlText(text, enabled) ==
    IF RegexMatch(text) = 0
    THEN [ok |-> FALSE, text |-> text, warned |-> {"FeaturesSectionNotFound"}]
    ELSE [ok |-> TRUE,
          text |-> [text EXCEPT ![RegexMatch(text)].items = featureFlags(enabled)],
          warned |-> {}]

\* The enabled lists the step is run with.
EnabledLists == {<<>>, <<1>>, <<2, 1>>}

\* The feature-flag step, run on the text.
WriteFeatures(enabled) ==
    LET r == updateCargoTomlText(cargoText, enabled)
    IN /\ cargoText' = r.text
       /\ last' = [Report("updateCargoToml", 0, IF r.ok THEN "true" ELSE "false",
                          Len(enabled))
                     EXCEPT !.warned = r.warned]
       /\ UNCHANGED <<manifests, procs, edits, snapshot>>
       /\ UNCHANGED Files

InitCargo ==
    /\ manifests \in {AsFunction(r) : r \in RegistriesOver(ModuleIds, 0)}
    /\ NewProject
    /\ cargoText \in CargoTexts

NextCargo == \E enabled \in EnabledLists : WriteFeatures(enabled)

SpecCargo == InitCargo /\ [][NextCargo]_vars

\* What the commands' view of Cargo.toml (the variable cargo) keeps of a
\* text, and the step on the text seen through it: it is updateCargoToml.
CargoOf(text) ==
    [exists |-> TRUE,
     region |-> RegexMatch(text) # 0,
     features |-> IF RegexMatch(text) # 0 THEN text[RegexMatch(text)].items
                  ELSE <<>>]

TextStepIsCargoStep ==
    [][\A enabled \in EnabledLists :
        (last'.cmd = "updateCargoToml" /\ last'.detail = Len(enabled))
            => (/\ CargoOf(cargoText') = updateCargoToml(CargoOf(cargoText), enabled)
                /\ (last'.outcome = "true") = updateCargoTomlOk(CargoOf(cargoText)))]_vars


----------------------------------------------------------------------------
\* Vocabulary of the properties.

\* b's manifest declares a non-optional dependency on a.
Requires(b, a) ==
    \E i \in 1..Len(manifests[b].dependencies) :
        /\ manifests[b].dependencies[i].module_id = a
        /\ ~manifests[b].dependencies[i].optional

Installed(a) == a \in moduleDirs

Enabled(a) ==
    /\ configFile
    /\ \E i \in 1..Len(config) : config[i].module_id = a /\ config[i].enabled

Met(a) == Installed(a) /\ Enabled(a)

\* The last command was cmd on id and reported outcome.
Reported(cmd, id, outcome) ==
    last.cmd = cmd /\ last.id = id /\ last.outcome = outcome

\* install(b) run right after a successful install(a), with b not installed
\* and b's other non-optional dependencies met, succeeds.
InstallAfterDependency(b, a) ==
    (/\ Reported("install", a, "ok")
     /\ Requires(b, a)
     /\ ~Installed(b)
     /\ \A c \in ModuleIds \ {a} : Requires(b, c) => Met(c))
        => (last'.outcome = "ok" /\ b \in moduleDirs')

\* C1 (as stated): if B requires A, install(B) fails with
\* DependencyMissing(A) in every state where A is not installed and enabled,
\* leaving B not installed; and install(B) succeeds right after a successful
\* install(A).
C1_AsStated ==
    [][(last'.cmd = "install" /\ last'.id \in ModuleIds) =>
        LET b == last'.id
        IN \A a \in ModuleIds :
            /\ (Requires(b, a) /\ ~Met(a))
                  => (/\ last'.outcome = "DependencyMissing"
                      /\ last'.detail = a
                      /\ b \notin moduleDirs')
            /\ InstallAfterDependency(b, a)]_vars

\* d is the first entry of b's dependencies[] that is non-optional and not
\* installed and enabled.
IsFirstUnmet(b, d) ==
    \E i \in 1..Len(manifests[b].dependencies) :
        /\ manifests[b].dependencies[i].module_id = d
        /\ ~manifests[b].dependencies[i].optional
        /\ ~Met(d)
        /\ \A j \in 1..(i - 1) :
              \/ manifests[b].dependencies[j].optional
              \/ Met(manifests[b].dependencies[j].module_id)

\* C1 (amended): if B requires A and B is not installed, install(B) fails
\* with DependencyMissing in every state where A is not installed and
\* enabled, naming the first non-optional entry of B's dependencies[] that is
\* not installed and enabled, and leaves B not installed; and install(B)
\* succeeds right after a successful install(A).
C1_InstallDependency ==
    [][(last'.cmd = "install" /\ last'.id \in ModuleIds) =>
        LET b == last'.id
        IN \A a \in ModuleIds :
            /\ (Requires(b, a) /\ ~Met(a) /\ ~Installed(b))
                  => (/\ last'.outcome = "DependencyMissing"
                      /\ IsFirstUnmet(b, last'.detail)
                      /\ b \notin moduleDirs')
            /\ InstallAfterDependency(b, a)]_vars

\* An install was refused naming the first of two unmet dependencies.
C1_Witness ==
    \E b \in ModuleIds, a \in ModuleIds :
        /\ Reported("install", b, "DependencyMissing")
        /\ last.detail # a
        /\ Requires(b, a)
        /\ ~Met(a)
        /\ ~Installed(b)

\* uninstall(a) run right after a successful uninstall(b), with a installed
\* and removable.
UninstallAfterDependent(b, a) ==
    /\ Reported("uninstall", b, "ok")
    /\ Requires(b, a)
    /\ Installed(a)
    /\ manifests[a].can_disable

\* The step leaves a's source tree and the config file as they are.
LeftAlone(a) ==
    /\ a \in moduleDirs'
    /\ config' = config
    /\ configFile' = configFile

\* C2 (as stated): with B installed and enabled and requiring A (A
\* installed, canDisable), uninstall(A) fails with
\* ReverseDependencyExists(B) and leaves A as it is; after a successful
\* uninstall(B), uninstall(A) succeeds.
C2_AsStated ==
    [][(last'.cmd = "uninstall" /\ last'.id \in ModuleIds) =>
        LET a == last'.id
        IN \A b \in ModuleIds :
            /\ (Met(b) /\ Requires(b, a) /\ Installed(a) /\ manifests[a].can_disable)
                  => (/\ last'.outcome = "ReverseDependencyExists"
                      /\ last'.detail = b
                      /\ LeftAlone(a))
            /\ UninstallAfterDependent(b, a) => last'.outcome = "ok"]_vars

\* d is the first module, in directory order, that is installed and enabled
\* and requires a.
IsFirstDependent(a, d) ==
    /\ Met(d) /\ Requires(d, a)
    /\ \A c \in ModuleIds : (Met(c) /\ Requires(c, a)) => d <= c

\* C2 (amended): with B installed and enabled and requiring A (A installed,
\* canDisable), uninstall(A) fails with ReverseDependencyExists naming the
\* first installed and enabled module that requires A, and leaves A as it
\* is; after a successful uninstall(B), uninstall(A) succeeds if no
\* installed and enabled module requires A any more.
C2_UninstallDependency ==
    [][(last'.cmd = "uninstall" /\ last'.id \in ModuleIds) =>
        LET a == last'.id
        IN \A b \in ModuleIds :
            /\ (Met(b) /\ Requires(b, a) /\ Installed(a) /\ manifests[a].can_disable)
                  => (/\ last'.outcome = "ReverseDependencyExists"
                      /\ IsFirstDependent(a, last'.detail)
                      /\ LeftAlone(a))
            /\ (/\ UninstallAfterDependent(b, a)
                /\ \A c \in ModuleIds : ~(Met(c) /\ Requires(c, a)))
                  => (last'.outcome = "ok" /\ a \notin moduleDirs')]_vars

\* An uninstall was refused while two installed and enabled modules
\* required the module.
C2_Witness ==
    \E a \in ModuleIds, b \in ModuleIds :
        /\ Reported("uninstall", a, "ReverseDependencyExists")
        /\ last.detail # b
        /\ Met(b) /\ Requires(b, a)
        /\ Installed(a)

CommandNames == {"install", "uninstall", "configure", "sync", "list", "info"}

\* C3: no command removes a module with canDisable = false from the
\* installed set or from the enabled set.
C3_ProtectedStays ==
    [][last'.cmd \in CommandNames =>
        \A p \in ModuleIds :
            ~manifests[p].can_disable =>
                /\ Installed(p) => p \in moduleDirs'
                /\ Enabled(p) => Enabled(p)']_vars

\* C4 (as stated): uninstall of a module with canDisable = false always
\* fails with ProtectedModule.
C4_AsStated ==
    \A p \in ModuleIds :
        (last.cmd = "uninstall" /\ last.id = p /\ ~manifests[p].can_disable)
            => last.outcome = "ProtectedModule"

\* C4 (amended): uninstall of an installed module with canDisable = false
\* always fails with ProtectedModule, whatever the config holds and whoever
\* depends on it; when the module is not installed the command is the
\* not-installed warning.
C4_ProtectedUninstall ==
    \A p \in ModuleIds :
        (last.cmd = "uninstall" /\ last.id = p /\ ~manifests[p].can_disable)
            => last.outcome =
                  IF Installed(p) THEN "ProtectedModule" ELSE "NotInstalled"

\* The uninstall of a protected module that another module requires was
\* refused.
C4_Witness ==
    \E p \in ModuleIds, b \in ModuleIds :
        /\ Reported("uninstall", p, "ProtectedModule")
        /\ ~manifests[p].can_disable
        /\ Met(b) /\ Requires(b, p)

\* C5: every enabled module has each of its non-optional dependencies
\* installed and enabled.
C5_EnabledHaveDependencies ==
    \A b \in ModuleIds, a \in ModuleIds :
        (Enabled(b) /\ Requires(b, a)) => Met(a)

\* A module is enabled with its dependency, whose uninstall was refused.
C5_Witness ==
    \E b \in ModuleIds, a \in ModuleIds :
        /\ Enabled(b) /\ Requires(b, a) /\ Met(a)
        /\ Reported("uninstall", a, "ReverseDependencyExists")

\* C6: sync leaves the installed set and the persisted config as they are.
C6_SyncFrame ==
    [][last'.cmd = "sync" =>
        /\ moduleDirs' = moduleDirs
        /\ config' = config
        /\ configFile' = configFile]_vars

\* C7: a sync run right after a sync leaves the feature list and the
\* aggregator file as the first one wrote them.
C7_SyncIdempotent ==
    [][(Reported("sync", 0, "ok") /\ last'.cmd = "sync") =>
        (cargo' = cargo /\ modRs' = modRs)]_vars

\* A sync has rewritten the artifacts of a project edited by hand.
C7_Witness ==
    /\ Reported("sync", 0, "ok")
    /\ edits > 0
    /\ cargo.features # <<>>
    /\ modRs.exists

\* The ids of a sequence of entries, in order.
IdsOf(entries) == [i \in 1..Len(entries) |-> entries[i].id]

Ascending(ids) == \A i, j \in 1..Len(ids) : i < j => ids[i] < ids[j]

Wrote == last.cmd \in {"install", "uninstall", "sync"} /\ last.outcome = "ok"

\* C8: after install, uninstall or sync has written them, the feature list
\* and the aggregator file hold the enabled ids in sorted order.
C8_SortedArtifacts ==
    Wrote => (Ascending(IdsOf(cargo.features))
              /\ Ascending(IdsOf(SelectSeq(modRs.lines,
                                           LAMBDA l : l.item = "pub mod"))))

\* C9: the artifacts written for an enabled set are those written for the
\* same enabled set earlier.
C9_ArtifactsOfEnabledSet ==
    (/\ snapshot.taken
     /\ Wrote
     /\ snapshot.enabled = {a \in ModuleIds : Enabled(a)})
        => (cargo.features = snapshot.features /\ modRs = snapshot.modRs)

\* C10: after sync on a project whose Cargo.toml has the default-features
\* region, the feature list is one "module-<id>" per enabled id and nothing
\* else, and the aggregator file declares exactly the enabled ids.
C10_SyncRepairs ==
    (Reported("sync", 0, "ok") /\ cargo.exists /\ cargo.region) =>
        LET on == {a \in ModuleIds : Enabled(a)}
            mods == SelectSeq(modRs.lines, LAMBDA l : l.item = "pub mod")
            uses == SelectSeq(modRs.lines, LAMBDA l : l.item = "pub use")
        IN /\ Len(cargo.features) = Cardinality(on)
           /\ {cargo.features[i] : i \in 1..Len(cargo.features)}
                 = {[prefix |-> "module-", id |-> a] : a \in on}
           /\ Len(mods) = Cardinality(on)
           /\ {mods[i].id : i \in 1..Len(mods)} = on
           /\ Len(uses) = Cardinality(on)
           /\ {uses[i].id : i \in 1..Len(uses)} = on
           /\ Len(modRs.lines) = Len(mods) + Len(uses)

\* A sync has rewritten the artifacts of a project edited by hand, with a
\* module enabled.
C10_Witness ==
    /\ Reported("sync", 0, "ok")
    /\ edits > 0
    /\ cargo.exists /\ cargo.region
    /\ \E a \in ModuleIds : Enabled(a)

\* The outcomes with which install and uninstall fail.
FailureOutcomes ==
    {"ManifestNotFound", "DependencyMissing", "ProtectedModule",
     "ReverseDependencyExists"}

\* C11: an install or uninstall that fails with ManifestNotFound,
\* DependencyMissing, ProtectedModule or ReverseDependencyExists leaves the
\* persisted config, the installed set, the feature list and the aggregator
\* file exactly as they were.
C11_FailureMutatesNothing ==
    [][(last'.cmd \in {"install", "uninstall"}
            /\ last'.outcome \in FailureOutcomes)
        => UNCHANGED <<config, configFile, moduleDirs, cargo, modRs>>]_vars

\* An install was refused for a missing dependency in a project that has
\* a module installed and artifacts written.
C11_Witness ==
    /\ last.cmd = "install" /\ last.outcome = "DependencyMissing"
    /\ moduleDirs # {}
    /\ cargo.features # <<>>
    /\ modRs.exists

\* The ids that have an entry in the persisted config.
EntryIds == {config[i].module_id : i \in 1..Len(config)}

\* C12: an entry for X comes into the persisted config only by a successful
\* install(X) and is gone after a successful uninstall(X); configure, sync,
\* list and info never create an entry.
C12_EntriesOnlyByInstall ==
    [][last'.cmd \in CommandNames =>
        /\ \A x \in EntryIds' \ EntryIds :
              last'.cmd = "install" /\ last'.id = x /\ last'.outcome = "ok"
        /\ (last'.cmd = "uninstall" /\ last'.outcome = "ok")
              => last'.id \notin EntryIds']_vars

\* The last command was a list or an info that showed statuses.
Showed == last.cmd \in {"list", "info"} /\ last.outcome = "ok"

\* C13: the status shown by list and info is ENABLED exactly when the module
\* is enabled in the config and installed, INSTALLED exactly when it is
\* installed and not enabled, AVAILABLE exactly when it is neither installed
\* nor enabled.
C13_StatusShown ==
    Showed =>
        \A id \in DOMAIN last.shown :
            /\ last.shown[id] = "ENABLED" <=> (Enabled(id) /\ Installed(id))
            /\ last.shown[id] = "INSTALLED" <=> (Installed(id) /\ ~Enabled(id))
            /\ last.shown[id] = "AVAILABLE" <=> (~Installed(id) /\ ~Enabled(id))

\* C14 (as stated): whenever install(id) finishes without reporting a
\* failure, id is installed and enabled afterwards, also when it started
\* installed but not enabled.
C14_AsStated ==
    (last.cmd = "install" /\ last.outcome \in {"ok", "AlreadyInstalled"})
        => Met(last.id)

\* C14 (amended): whenever install(id) reports success, id is installed and
\* enabled afterwards; on a module that is already installed the command is
\* the AlreadyInstalled warning and leaves the module, enabled or not, and
\* every file as they were.
C14_InstallEnables ==
    [][last'.cmd = "install" =>
        /\ last'.outcome = "ok"
              => \E x \in ModuleIds : last'.id = x /\ Met(x)'
        /\ last'.outcome = "AlreadyInstalled"
              => (/\ Installed(last'.id)
                  /\ UNCHANGED <<config, configFile, moduleDirs, cargo, modRs>>)
        /\ (last'.id \in ModuleIds /\ Installed(last'.id))
              => last'.outcome = "AlreadyInstalled"]_vars

\* An install succeeded on a project edited by hand and left the module
\* installed and enabled.
C14_Witness ==
    /\ last.cmd = "install" /\ last.outcome = "ok"
    /\ edits > 0
    /\ Met(last.id)

\* The ids named by the feature list, and those declared and re-exported by
\* the aggregator file.
FeatureIds ==
    {cargo.features[i].id :
        i \in {j \in 1..Len(cargo.features) : cargo.features[j].prefix = "module-"}}

ModIds ==
    {modRs.lines[i].id :
        i \in {j \in 1..Len(modRs.lines) :
                  /\ modRs.lines[j].item = "pub mod"
                  /\ modRs.lines[j].cfg.prefix = "module-"}}

UseIds ==
    {modRs.lines[i].id :
        i \in {j \in 1..Len(modRs.lines) :
                  /\ modRs.lines[j].item = "pub use"
                  /\ modRs.lines[j].cfg.prefix = "module-"}}

\* Every non-optional dependency of id is installed and enabled.
DependenciesMet(id) == \A a \in ModuleIds : Requires(id, a) => Met(a)

\* The feature-list step has a file and a region to write to.
CargoWritable == cargo.exists /\ cargo.region

\* C15: install(id) on a module with a manifest that is not installed and
\* has its non-optional dependencies installed and enabled, with no step
\* failing, leaves id's source tree present, config[id].enabled = true, and
\* an entry in the feature list and in the aggregator file for every id
\* enabled in the persisted config, id included.
C15_InstallEffect ==
    [][\A id \in ModuleIds :
        (/\ last'.cmd = "install" /\ last'.id = id
         /\ ~Installed(id) /\ DependenciesMet(id) /\ CargoWritable)
            => (/\ last'.outcome = "ok"
                /\ Met(id)'
                /\ LET on == {a \in ModuleIds : Enabled(a)'}
                   IN /\ id \in on
                      /\ on \subseteq FeatureIds'
                      /\ on \subseteq ModIds'
                      /\ on \subseteq UseIds')]_vars

\* An install has added a second module to the enabled ones.
C15_Witness ==
    /\ last.cmd = "install" /\ last.outcome = "ok"
    /\ Cardinality({a \in ModuleIds : Enabled(a)}) >= 2
    /\ {a \in ModuleIds : Enabled(a)} \subseteq FeatureIds \cap ModIds

\* uninstall(id) passes its validation: no installed and enabled module
\* requires id.
NoDependents(id) == \A b \in ModuleIds : ~(Met(b) /\ Requires(b, id))

\* C16: uninstall(id) on an installed module with canDisable = true that no
\* installed and enabled module requires, with no step failing, leaves id's
\* source tree absent, no entry for id in the persisted config, no mention
\* of id in the feature list and the aggregator file, and every other
\* enabled id still listed in both.
C16_UninstallEffect ==
    [][\A id \in ModuleIds :
        (/\ last'.cmd = "uninstall" /\ last'.id = id
         /\ Installed(id) /\ manifests[id].can_disable /\ NoDependents(id)
         /\ CargoWritable)
            => (/\ last'.outcome = "ok"
                /\ id \notin moduleDirs'
                /\ id \notin EntryIds'
                /\ id \notin FeatureIds' \cup ModIds' \cup UseIds'
                /\ LET on == {a \in ModuleIds \ {id} : Enabled(a)}
                   IN /\ on = {a \in ModuleIds : Enabled(a)'}
                      /\ on \subseteq FeatureIds'
                      /\ on \subseteq ModIds'
                      /\ on \subseteq UseIds')]_vars

\* An uninstall has removed a module and left another one enabled.
C16_Witness ==
    /\ last.cmd = "uninstall" /\ last.outcome = "ok"
    /\ last.id \notin moduleDirs
    /\ \E a \in ModuleIds : Enabled(a) /\ a \in FeatureIds \cap ModIds

\* The artifact writes of an invocation, in the order of the claims.
ArtifactWrites == <<"tree", "cargo", "lib", "mod">>

\* The step is one of process p, which was under way.
StepOf(p) == Running(p) /\ procs'[p] # procs[p]

\* C17: within one install or uninstall invocation the source tree is
\* copied or deleted first, then the feature list is written, then the
\* aggregator file, and the config file last, after every artifact write.
C17_WriteOrder ==
    [][\A p \in ProcIds : StepOf(p) =>
        /\ (config' # config \/ configFile' # configFile)
              => Done(p) = ArtifactWrites
        /\ procs'[p].result = "ok" => Done(p) = ArtifactWrites
        /\ cargo' # cargo => Done(p) = <<"tree">>
        /\ modRs' # modRs => Done(p) = <<"tree", "cargo", "lib">>
        /\ moduleDirs' # moduleDirs
              => Done(p) \in {<<>>, <<"tree", "cargo", "lib">>}]_vars

\* An install has made every artifact write and has not saved the config
\* yet.
C17_Witness ==
    \E p \in ProcIds :
        /\ procs[p].cmd = "install" /\ Running(p)
        /\ Done(p) = ArtifactWrites
        /\ procs[p].id \in moduleDirs \cap FeatureIds \cap ModIds
        /\ procs[p].id \notin EntryIds

\* C18: concurrent invocations are not serialized: whoever saves the config
\* overwrites the whole file with the config it read at its start and
\* changed in memory, whatever another invocation has saved in between.
C18_LastWriterWins ==
    [][\A p \in ProcIds :
        (StepOf(p) /\ Done(p) = ArtifactWrites /\ procs'[p].result = "ok")
            => (/\ config' = procs[p].cfg
                /\ configFile'
                /\ \A x \in EntryIds' :
                      x \in {procs[p].cfg[i].module_id :
                                i \in 1..Len(procs[p].cfg)})]_vars

\* Two concurrent installs of independent modules have both reported
\* success, both source trees are there, and the config holds an entry for
\* one of them only.
C18_Witness ==
    \E p \in ProcIds, q \in ProcIds :
        /\ p # q
        /\ procs[p].cmd = "install" /\ procs[p].result = "ok"
        /\ procs[q].cmd = "install" /\ procs[q].result = "ok"
        /\ procs[p].id # procs[q].id
        /\ manifests[procs[p].id].dependencies = <<>>
        /\ manifests[procs[q].id].dependencies = <<>>
        /\ {procs[p].id, procs[q].id} \subseteq moduleDirs
        /\ procs[p].id \in EntryIds
        /\ procs[q].id \notin EntryIds

\* The last invocation stopped after its artifact writes and before it
\* saved the config.
CrashedBeforeSave(cmd) ==
    /\ last.cmd = cmd /\ last.outcome = "crashed"
    /\ last.detail = Len(ArtifactWrites)

\* C19 (as stated): after an install that stops after its artifact writes
\* and before the config is saved, id's source tree is present and the
\* artifacts list id while the config has no enabled entry for id; after
\* such an uninstall the tree is gone and the artifacts omit id while the
\* config still has id enabled.
C19_AsStated ==
    /\ CrashedBeforeSave("install") =>
          /\ last.id \in moduleDirs \cap FeatureIds \cap ModIds
          /\ ~Enabled(last.id)
    /\ CrashedBeforeSave("uninstall") =>
          /\ last.id \notin moduleDirs \cup FeatureIds \cup ModIds
          /\ Enabled(last.id)

\* C19 (amended): such a stop leaves the artifacts as the command wrote
\* them and the config as it was when the command started: after the
\* install the tree is present and the artifacts list id, and the config has
\* no enabled entry for id if it had none at the start; after the uninstall
\* the tree is gone and the artifacts omit id, and the config still has id
\* enabled if it had at the start.
C19_CrashBeforeSave ==
    [][\A p \in ProcIds :
        (StepOf(p) /\ procs'[p].result = "crashed" /\ Done(p) = ArtifactWrites)
            => LET id == procs[p].id
               IN /\ UNCHANGED <<config, configFile>>
                  /\ procs[p].cmd = "install" =>
                        /\ id \in moduleDirs' \cap FeatureIds' \cap ModIds'
                        /\ procs[p].cfg = EnableEntry(loadModuleConfig, id)
                        /\ ~Enabled(id) => ~Enabled(id)'
                  /\ procs[p].cmd = "uninstall" =>
                        /\ id \notin moduleDirs' \cup FeatureIds' \cup ModIds'
                        /\ procs[p].cfg = DeleteEntry(loadModuleConfig, id)
                        /\ Enabled(id) => Enabled(id)']_vars

\* An uninstall has stopped before the save: the tree is gone, the
\* artifacts omit the module, the config has it enabled.
C19_Witness ==
    /\ CrashedBeforeSave("uninstall")
    /\ last.id \notin moduleDirs \cup FeatureIds \cup ModIds
    /\ Enabled(last.id)

IsNumber(v) == v = "8080"

\* The key is declared in the schema with the number type.
NumberKey(key) ==
    key \in DOMAIN ConfigSchema /\ ConfigSchema[key].field_type = "number"

\* C21: configure on an installed module fails with ConfigKeyInvalid for a
\* key the schema does not declare, and with ValueCoercionError for a
\* number-typed key given a value that is not a number; either way the
\* persisted config is unchanged.
C21_ConfigValidation ==
    [][\A id \in ConfiguredIds, key \in InputKeys, value \in InputValues :
          (/\ last'.cmd = "configure" /\ last'.id = id
           /\ HasManifest(id) /\ Installed(id)
           /\ configureModule(id, key, value))
          => /\ key \notin DOMAIN ConfigSchema
                => /\ last'.outcome = "ConfigKeyInvalid"
                   /\ UNCHANGED <<config, configFile>>
             /\ (NumberKey(key) /\ ~IsNumber(value))
                => /\ last'.outcome = "ValueCoercionError"
                   /\ UNCHANGED <<config, configFile>>]_vars

\* The setting stored for id under key in the persisted config cfg is value.
HasSetting(cfg, id, key, value) ==
    \E i \in 1..Len(cfg) :
        /\ cfg[i].module_id = id
        /\ key \in DOMAIN cfg[i].config
        /\ cfg[i].config[key] = value

C23_InstallInstalled ==
    [][(last'.cmd = "install" /\ HasManifest(last'.id) /\ last'.id \in moduleDirs)
        => /\ last'.outcome = "AlreadyInstalled"
           /\ UNCHANGED <<config, configFile, moduleDirs, cargo, modRs>>]_vars

\* install was run on an installed module whose config entry is gone and
\* whose artifacts are written.
C23_Witness ==
    /\ last.cmd = "install" /\ last.outcome = "AlreadyInstalled"
    /\ Installed(last.id) /\ last.id \notin EntryIds
    /\ cargo.features # <<>>

\* C24: uninstall(id) on a module that is not installed is a warning and
\* changes neither the persisted config (an entry for id, enabled or not,
\* stays in place), nor any source tree, nor the feature list, nor the
\* aggregator file.
C24_UninstallNotInstalled ==
    [][(last'.cmd = "uninstall" /\ HasManifest(last'.id) /\ last'.id \notin moduleDirs)
        => /\ last'.outcome = "NotInstalled"
           /\ UNCHANGED <<config, configFile, moduleDirs, cargo, modRs>>]_vars

\* uninstall was run on a module that is not installed and has an enabled
\* entry in the persisted config.
C24_Witness ==
    /\ last.cmd = "uninstall" /\ last.outcome = "NotInstalled"
    /\ ~Installed(last.id) /\ Enabled(last.id)

\* C25: after a successful install, uninstall or sync the aggregator file
\* exists exactly when the enabled set of the config the command used is
\* non-empty: with an empty set the file is gone, with a non-empty one it
\* holds one declaration and one re-export per enabled id and nothing else.
C25_AggregatorExists ==
    Wrote =>
        LET on == EnabledSet(loadModuleConfig)
        IN /\ modRs.exists <=> on # {}
           /\ on = {} => modRs = NoModRs
           /\ on # {} => /\ ModIds = on
                         /\ UseIds = on
                         /\ Len(modRs.lines) = 2 * Cardinality(on)

\* An uninstall has left no module enabled, in a project edited by hand, and
\* the aggregator file is gone.
C25_Witness ==
    /\ last.cmd = "uninstall" /\ last.outcome = "ok"
    /\ edits > 0
    /\ EnabledSet(loadModuleConfig) = {}
    /\ ~modRs.exists

----------------------------------------------------------------------------
\* The save of module_config.json failing.

\* writeFileSync(configPath, text) that throws.  The file is opened with the
\* flag 'w': when the open is refused the file stays as it was; when the
\* error comes once the file is open, the file exists and has been cut
\* short, which loadModuleConfig reads as the empty map (its JSON.parse
\* throws and it returns {}).
writeFileSyncThrows(disk, exists) ==
    {[config |-> disk, configFile |-> exists],
     [config |-> <<>>, configFile |-> TRUE]}

\* Process p is at its save and the save fails: saveModuleConfig returns
\* false and the handler reports the failure and ends.
SaveFails(p) ==
    LET me == procs[p]
    IN /\ Running(p)
       /\ StepOrder[me.pc] = "config"
       /\ \E w \in writeFileSyncThrows(config, configFile) :
             /\ config' = w.config
             /\ configFile' = w.configFile
       /\ procs' = [procs EXCEPT ![p] = Exit(me.cmd, me.id, "FileSystemError")]
       /\ last' = Report(me.cmd, me.id, "FileSystemError", Len(Done(p)))
       /\ UNCHANGED <<manifests, cargoText, edits, snapshot>>
       /\ UNCHANGED <<moduleDirs, cargo, libRs, modRs>>

\* configureModule passing its checks and failing at its save: the error is
\* logged by saveModuleConfig and no success is printed.
configureModuleSaveFails(id, key, value) ==
    /\ Quiet
    /\ HasManifest(id)
    /\ id \in getInstalledModules
    /\ key \in DOMAIN ConfigSchema
    /\ Coerce(ConfigSchema[key].field_type, value).ok
    /\ \E w \in writeFileSyncThrows(config, configFile) :
          /\ config' = w.config
          /\ configFile' = w.configFile
    /\ last' = Report("configure", id, "FileSystemError", 0)
    /\ UNCHANGED <<manifests, cargoText, procs, edits, snapshot>>
    /\ UNCHANGED <<moduleDirs, cargo, libRs, modRs>>

\* One invocation at a time, any of which may fail at its save.
NextSaveFails ==
    \/ Sequential
    \/ \E p \in ProcIds, cmd \in {"install", "uninstall"}, id \in ModuleIds :
          BeginAlone(p, cmd, id)
    \/ \E p \in ProcIds : Step(p)
    \/ \E p \in ProcIds : SaveFails(p)
    \/ \E id \in ConfiguredIds, key \in InputKeys, value \in InputValues :
          configureModuleSaveFails(id, key, value)

SpecSaveFails == InitObserved /\ [][NextSaveFails]_vars

\* C26: when the save of the config file fails at the end of install,
\* uninstall or configure, the command is reported as failed, it ends
\* without another attempt, and the persisted config file keeps its
\* previous content in full.
C26_SaveFailure ==
    [][last'.outcome = "FileSystemError"
        => /\ last'.cmd \in {"install", "uninstall", "configure"}
           /\ Quiet'
           /\ UNCHANGED <<config, configFile>>]_vars

\* C26, the part on the report: a failed save is never reported as a success
\* and the invocation is over.
C26_ReportedFailed ==
    [][last'.outcome = "FileSystemError"
        => /\ last'.cmd \in {"install", "uninstall", "configure"}
           /\ Quiet']_vars

----------------------------------------------------------------------------
\* Install followed by uninstall, observed.

\* An observer notes, between two invocations, the persisted config as it
\* is read, the installed set, the feature list and the aggregator file.
TakeFullSnapshot ==
    /\ ~snapshot.taken
    /\ \A q \in ProcIds : procs[q].pc = 0
    /\ snapshot' = [taken |-> TRUE, config |-> loadModuleConfig,
                    installed |-> getInstalledModules,
                    features |-> cargo.features, modRs |-> modRs]
    /\ UNCHANGED <<manifests, cargoText, procs, config, configFile, moduleDirs,
                   cargo, libRs, modRs, last, edits>>

\* The commands that made the project what it is when it is observed.
Earlier ==
    /\ ~snapshot.taken
    /\ \A q \in ProcIds : procs[q].pc = 0
    /\ Command

\* The invocations made after the observation, one at a time.
Later(p, cmd, id) ==
    /\ snapshot.taken
    /\ BeginAlone(p, cmd, id)

NextRoundTrip ==
    \/ Earlier
    \/ TakeFullSnapshot
    \/ \E p \in ProcIds, cmd \in {"install", "uninstall"}, id \in ModuleIds :
          Later(p, cmd, id)
    \/ \E p \in ProcIds : Step(p)

SpecRoundTrip == InitObserved /\ [][NextRoundTrip]_vars

\* Since the observation, which found x not installed, install(x) and then
\* uninstall(x) have succeeded and nothing else has run.
RoundTrip(x) ==
    /\ snapshot.taken
    /\ x \notin snapshot.installed
    /\ \E p, q \in ProcIds :
          /\ procs[p] = Exit("install", x, "ok")
          /\ procs[q] = Exit("uninstall", x, "ok")

\* C27: from a state the commands produced, a successful install(x) followed
\* by a successful uninstall(x) leaves the persisted config, the installed
\* set, the feature list and the aggregator file as they were before the
\* install, and x is AVAILABLE again.
C27_RoundTrip ==
    \A x \in ModuleIds :
        RoundTrip(x)
        => /\ loadModuleConfig = snapshot.config
           /\ getInstalledModules = snapshot.installed
           /\ cargo.features = snapshot.features
           /\ modRs = snapshot.modRs
           /\ Status(x, getInstalledModules, loadModuleConfig) = "AVAILABLE"

\* A module was installed and uninstalled again in a project where another
\* module stays installed, enabled and configured.
C27_Witness ==
    \E x \in ModuleIds :
        /\ RoundTrip(x)
        /\ snapshot.installed # {}
        /\ Stored(snapshot.config) > 0
        /\ snapshot.modRs.exists

\* b names a as a dependency and every such entry is optional.
OptionalOnly(b, a) ==
    /\ \E i \in 1..Len(manifests[b].dependencies) :
          manifests[b].dependencies[i].module_id = a
    /\ ~Requires(b, a)

\* C28: optional dependencies are never checked: install(id) of a module
\* that is not installed succeeds when every dependency of id that is not
\* installed and enabled is optional, and uninstall(id) of an installed
\* module with canDisable = true succeeds when every installed and enabled
\* module that names id does so optionally.
C28_OptionalIgnored ==
    [][\A id \in ModuleIds :
          /\ (/\ last'.cmd = "install" /\ last'.id = id
              /\ ~Installed(id)
              /\ \A a \in ModuleIds : Requires(id, a) => Met(a))
                => last'.outcome = "ok"
          /\ (/\ last'.cmd = "uninstall" /\ last'.id = id
              /\ Installed(id) /\ canDisable(id)
              /\ \A b \in ModuleIds : Requires(b, id) => ~Met(b))
                => last'.outcome = "ok"]_vars

\* uninstall(a) has succeeded while b, installed and enabled, names a as an
\* optional dependency: b stays on with that dependency unmet.
C28_Witness ==
    /\ last.cmd = "uninstall" /\ last.outcome = "ok"
    /\ \E b \in ModuleIds :
          /\ b # last.id
          /\ OptionalOnly(b, last.id)
          /\ Met(b)
          /\ ~Met(last.id)

----------------------------------------------------------------------------
\* A module put in place by hand.

\* A module's source tree and its enabled config entry are put into the
\* project by hand (restored from a backup, or checked out from version
\* control), without the install command.
PlaceModule(id) ==
    /\ Edited
    /\ id \notin moduleDirs
    /\ moduleDirs' = moduleDirs \cup {id}
    /\ config' = EnableEntry(loadModuleConfig, id)
    /\ configFile' = TRUE
    /\ UNCHANGED <<cargo, libRs, modRs>>

NextPlaced ==
    \/ Command
    \/ ManualEdit
    \/ \E id \in ModuleIds : PlaceModule(id)

SpecPlaced == InitObserved /\ [][NextPlaced]_vars

\* The modules other than a that are installed and enabled and require a.
OtherDependents(a) ==
    {b \in ModuleIds \ {a} : Met(b) /\ Requires(b, a)}

\* C29: uninstall(a) of an installed module with canDisable = true is
\* refused with ReverseDependencyExists(b) exactly when some module b other
\* than a is installed and enabled and requires a; a module that is only
\* installed, or only enabled, or is a itself does not stop it.
C29_BlockedByOthers ==
    [][\A a \in ModuleIds :
          (/\ last'.cmd = "uninstall" /\ last'.id = a
           /\ Installed(a) /\ canDisable(a))
          => IF OtherDependents(a) # {}
             THEN /\ last'.outcome = "ReverseDependencyExists"
                  /\ last'.detail \in OtherDependents(a)
             ELSE last'.outcome = "ok"]_vars

\* The same with a itself counted among the dependents, as the loop of
\* uninstallModule does.
BlockedByAny ==
    [][\A a \in ModuleIds :
          (/\ last'.cmd = "uninstall" /\ last'.id = a
           /\ Installed(a) /\ canDisable(a))
          => LET D == {b \in ModuleIds : Met(b) /\ Requires(b, a)}
             IN IF D # {}
                THEN /\ last'.outcome = "ReverseDependencyExists"
                     /\ last'.detail \in D
                ELSE last'.outcome = "ok"]_vars

\* C30: validation looks one edge far: install(id) of a module that is not
\* installed is refused for a missing dependency exactly when a module that
\* id itself requires is not installed and enabled, and uninstall(id) of an
\* installed module with canDisable = true is refused for a dependent
\* exactly when an installed and enabled module requires id itself; what
\* holds of modules further away changes neither outcome.
C30_SingleHop ==
    [][\A id \in ModuleIds :
          /\ (last'.cmd = "install" /\ last'.id = id /\ ~Installed(id))
                => /\ last'.outcome \in {"ok", "DependencyMissing"}
                   /\ last'.outcome = "DependencyMissing"
                        <=> \E a \in ModuleIds : Requires(id, a) /\ ~Met(a)
          /\ (/\ last'.cmd = "uninstall" /\ last'.id = id
              /\ Installed(id) /\ canDisable(id))
                => /\ last'.outcome \in {"ok", "ReverseDependencyExists"}
                   /\ last'.outcome = "ReverseDependencyExists"
                        <=> \E b \in ModuleIds : Requires(b, id) /\ Met(b)]_vars

\* install(c) has succeeded along a chain c requires b requires a with a's
\* source tree or enabled flag gone.
C30_Witness ==
    /\ last.cmd = "install" /\ last.outcome = "ok"
    /\ \E a, b \in ModuleIds :
          /\ a # b /\ a # last.id /\ b # last.id
          /\ Requires(last.id, b)
          /\ Requires(b, a)
          /\ Met(b)
          /\ ~Met(a)

\* The positions of id's non-optional dependency entries whose module is not
\* both installed and enabled.
Failing(id) ==
    {i \in 1..Len(manifests[id].dependencies) :
        /\ ~manifests[id].dependencies[i].optional
        /\ ~(Installed(manifests[id].dependencies[i].module_id)
               /\ Enabled(manifests[id].dependencies[i].module_id))}

\* C31: install(id) of a module that is not installed and has unmet
\* non-optional dependencies is refused naming the first such entry in the
\* order of dependencies[], where an entry is met only if its module is both
\* installed and enabled: installed but disabled fails and enabled but not
\* installed fails.
C31_FirstFailingEntry ==
    [][\A id \in ModuleIds :
          (/\ last'.cmd = "install" /\ last'.id = id
           /\ ~Installed(id)
           /\ Failing(id) # {})
          => /\ last'.outcome = "DependencyMissing"
             /\ last'.detail =
                  manifests[id].dependencies[MinOf(Failing(id))].module_id]_vars

\* An install was refused naming the first of two unmet dependencies, a
\* module that is installed but disabled, listed ahead of a module with a
\* smaller id.
C31_Witness ==
    /\ last.cmd = "install" /\ last.outcome = "DependencyMissing"
    /\ last.id \in ModuleIds
    /\ Cardinality(Failing(last.id)) = 2
    /\ Installed(last.detail) /\ ~Enabled(last.detail)
    /\ \E i \in Failing(last.id) :
          manifests[last.id].dependencies[i].module_id < last.detail

\* C32: a successful install(id) leaves config[id] a fresh entry, enabled and
\* with an empty settings map, whatever the config held for id before.
C32_FreshEntry ==
    [][\A id \in ModuleIds :
          (last'.cmd = "install" /\ last'.id = id /\ last'.outcome = "ok")
          => \E i \in 1..Len(config') :
                /\ config'[i].module_id = id
                /\ config'[i].enabled
                /\ config'[i].config = NoSettings]_vars

\* C33: with the commands alone, run one at a time to completion, the
\* installed modules, the enabled modules and the keys of the persisted
\* config are the same set.
C33_Lockstep ==
    /\ getInstalledModules = EnabledSet(loadModuleConfig)
    /\ EnabledSet(loadModuleConfig) = {loadModuleConfig[i].module_id :
                                          i \in 1..Len(loadModuleConfig)}

\* Two modules are installed, one of them configured, after an uninstall of
\* a third.
C33_Witness ==
    /\ last.cmd = "uninstall" /\ last.outcome = "ok"
    /\ Cardinality(getInstalledModules) = 2
    /\ Stored(loadModuleConfig) > 0

\* The entry the persisted config holds for y, if any.
EntriesOf(cfg, y) == {cfg[i] : i \in {j \in 1..Len(cfg) : cfg[j].module_id = y}}

\* C34: install(x), uninstall(x) and configure(x, ...) leave every other
\* module y as it was: y's config entry, enabled flag and settings, and y's
\* source tree.
C34_OnlyX ==
    [][\A x \in ModuleIds :
          (last'.cmd \in {"install", "uninstall", "configure"} /\ last'.id = x)
          => \A y \in ModuleIds \ {x} :
                /\ EntriesOf(loadModuleConfig, y) = EntriesOf(loadModuleConfig', y)
                /\ (y \in moduleDirs) <=> (y \in moduleDirs')]_vars

\* C35: install, uninstall and sync report success only when every artifact
\* step of the invocation succeeded: a command whose feature-list update,
\* lib.rs update or aggregator write failed does not report success and,
\* for install and uninstall, does not persist the config.
C35_SuccessMeansAllSteps ==
    [][(/\ last'.cmd \in {"install", "uninstall", "sync"}
        /\ last'.warned # {})
        => /\ last'.outcome # "ok"
           /\ UNCHANGED <<config, configFile>>]_vars

----------------------------------------------------------------------------
\* install failing at a write.

\* copyModuleFiles that throws: before the target directory is made (the
\* module's source directory is missing, or mkdirSync is refused), or after
\* it (a cpSync fails), which leaves the directory in place.
copyModuleFilesThrows(dirs, id) == {dirs, dirs \cup {id}}

\* installModule passing its checks and failing at the copy: the catch
\* reports the failure; no artifact is written and nothing is saved.
installModuleCopyFails(id) ==
    /\ HasManifest(id)
    /\ validateInstall(id) = "ok"
    /\ moduleDirs' \in copyModuleFilesThrows(moduleDirs, id)
    /\ last' = Report("install", id, "FileSystemError", 0)
    /\ UNCHANGED <<config, configFile, cargo, libRs, modRs>>
    /\ UNCHANGED <<manifests, cargoText, procs, edits, snapshot>>

\* installModule passing its checks, copying, writing the artifacts and
\* failing at the save.
installModuleSaveFails(id) ==
    LET cfg == EnableEntry(loadModuleConfig, id)
        enabled == enabledModules(cfg)
        made == createModulesModFile(copyModuleFiles(moduleDirs, id), enabled)
    IN /\ HasManifest(id)
       /\ validateInstall(id) = "ok"
       /\ cargo' = updateCargoToml(cargo, enabled)
       /\ libRs' = updateModExports(libRs, enabled)
       /\ moduleDirs' = made.dirs
       /\ modRs' = made.modRs
       /\ \E w \in writeFileSyncThrows(config, configFile) :
             /\ config' = w.config
             /\ configFile' = w.configFile
       /\ last' = Report("install", id, "FileSystemError", Len(StepOrder) - 1)
       /\ UNCHANGED <<manifests, cargoText, procs, edits, snapshot>>

NextInstallFails ==
    \/ Command
    \/ \E id \in ModuleIds : installModuleCopyFails(id)
    \/ \E id \in ModuleIds : installModuleSaveFails(id)

SpecInstallFails == InitObserved /\ [][NextInstallFails]_vars

\* C36: an install(x) that reports a failure, at the manifest lookup, the
\* dependency validation, the source copy or the config save, leaves x not
\* installed unless it was installed before.
C36_FailedInstallLeavesNothing ==
    [][\A x \in CommandIds :
          (/\ last'.cmd = "install" /\ last'.id = x
           /\ last'.outcome \in
                {"ManifestNotFound", "DependencyMissing", "FileSystemError"}
           /\ x \notin getInstalledModules)
          => x \notin getInstalledModules']_vars

\* The same for the failures that come before any write.
FailedValidationLeavesNothing ==
    [][\A x \in CommandIds :
          (/\ last'.cmd = "install" /\ last'.id = x
           /\ last'.outcome \in {"ManifestNotFound", "DependencyMissing"}
           /\ x \notin getInstalledModules)
          => x \notin getInstalledModules']_vars

----------------------------------------------------------------------------
\* The reads of an invocation, one after the other.

\* Process p starts cmd on a module that has a manifest: it reads the
\* installed set (getInstalledModules) and decides what depends on that set
\* and the manifest alone; the config is read later.
ReadInstalled(p, cmd, id) ==
    LET installed == getInstalledModules
        outcome == IF cmd = "install"
                   THEN IF id \in installed THEN "AlreadyInstalled" ELSE "reading"
                   ELSE IF id \notin installed THEN "NotInstalled"
                   ELSE IF ~canDisable(id) THEN "ProtectedModule"
                   ELSE "reading"
    IN /\ procs[p] = Idle
       /\ HasManifest(id)
       /\ IF outcome = "reading"
          THEN procs' = [procs EXCEPT ![p] =
                    [pc |-> 0, cmd |-> cmd, id |-> id, cfg |-> <<>>,
                     result |-> "reading", installed |-> installed]]
          ELSE procs' = [procs EXCEPT ![p] = Exit(cmd, id, outcome)]
       /\ last' = Report(cmd, id, outcome, 0)
       /\ UNCHANGED <<manifests, cargoText, edits, snapshot>>
       /\ UNCHANGED Files

\* Process p reads the config (loadModuleConfig) and runs its dependency
\* loop on it and on the installed set it read before: it is refused and
\* exits, or goes on to its writes with the config it will save.
ReadConfig(p) ==
    LET me == procs[p]
        cfg == loadModuleConfig
        refused == IF me.cmd = "install"
                   THEN UnmetDeps(me.id, me.installed, cfg) # {}
                   ELSE Dependents(me.id, me.installed, cfg) # {}
        outcome == IF ~refused THEN "running"
                   ELSE IF me.cmd = "install" THEN "DependencyMissing"
                   ELSE "ReverseDependencyExists"
        mem == IF me.cmd = "install" THEN EnableEntry(cfg, me.id)
               ELSE DeleteEntry(cfg, me.id)
    IN /\ me.result = "reading"
       /\ IF refused
          THEN procs' = [procs EXCEPT ![p] = Exit(me.cmd, me.id, outcome)]
          ELSE procs' = [procs EXCEPT ![p] =
                    [pc |-> 1, cmd |-> me.cmd, id |-> me.id, cfg |-> mem,
                     result |-> "running"]]
       /\ last' = Report(me.cmd, me.id, outcome, 0)
       /\ UNCHANGED <<manifests, cargoText, edits, snapshot>>
       /\ UNCHANGED Files

\* The invocations that ran, each as a whole, before the overlapping ones.
Before ==
    /\ \A q \in ProcIds : procs[q] = Idle
    /\ \E id \in ModuleIds : installModule(id) \/ uninstallModule(id)

\* Invocations that overlap in time, read by read and write by write.
NextInterleaved ==
    \/ Before
    \/ \E p \in ProcIds, cmd \in {"install", "uninstall"}, id \in ModuleIds :
          ReadInstalled(p, cmd, id)
    \/ \E p \in ProcIds : ReadConfig(p)
    \/ \E p \in ProcIds : Step(p)

SpecInterleaved == InitObserved /\ [][NextInterleaved]_vars

\* install(b) and uninstall(a) have both reported success, b requiring a.
BothSucceeded(b, a) ==
    /\ Requires(b, a)
    /\ a # b
    /\ \E p, q \in ProcIds :
          /\ procs[p] = Exit("install", b, "ok")
          /\ procs[q] = Exit("uninstall", a, "ok")

\* C37: the dependency check is not atomic with the writes it guards:
\* install(b) and uninstall(a), with b requiring a, can both pass their
\* checks and both succeed, and whenever they do, a is not installed at the
\* end, so that b, where it stays installed and enabled, is left without its
\* dependency.
C37_CheckNotAtomic ==
    \A a, b \in ModuleIds :
        BothSucceeded(b, a) => /\ ~Installed(a)
                               /\ Met(b) => ~DependenciesMet(b)

\* Both have succeeded and b is installed and enabled while a is neither
\* installed nor in the config.
C37_Witness ==
    \E a, b \in ModuleIds :
        /\ BothSucceeded(b, a)
        /\ Met(b)
        /\ ~Installed(a)
        /\ a \notin EntryIds

----------------------------------------------------------------------------
\* lib.rs edited by hand.

\* A second "mod modules;" is written into lib.rs by hand.
EditLibRs ==
    /\ Edited
    /\ libRs.exists
    /\ libRs' = [libRs EXCEPT !.decls = libRs.decls + 1]
    /\ UNCHANGED <<config, configFile, moduleDirs, cargo, modRs>>

NextLib ==
    \/ Command
    \/ ManualEdit
    \/ EditLibRs

SpecLib == InitObserved /\ [][NextLib]_vars

\* C38: after an install, uninstall or sync whose writes all succeeded,
\* lib.rs holds "mod modules;" once if the aggregator file exists and not at
\* all if it does not; a repeated sync leaves it at one.
C38_DeclarationWithAggregator ==
    (Wrote /\ last.warned = {})
        => libRs.decls = IF modRs.exists THEN 1 ELSE 0

\* A command has written the artifacts of a project edited by hand, with a
\* module enabled: the aggregator file is there and lib.rs declares it.
C38_Witness ==
    /\ Wrote /\ last.warned = {}
    /\ edits > 0
    /\ modRs.exists
    /\ libRs.decls = 1

\* The settings the persisted config cfg holds for id: none without an entry.
SettingsOf(cfg, id) == IF HasKey(cfg, id) THEN EntryOf(cfg, id).config ELSE NoSettings

\* The settings maps s and t are the same but for at most one key.
DifferInOneKey(s, t) ==
    \E key \in DOMAIN t :
        /\ DOMAIN t = DOMAIN s \cup {key}
        /\ \A k \in DOMAIN s \ {key} : t[k] = s[k]

\* C39: configure(id, key, value) leaves the installed set, the feature
\* list and the aggregator file as they are, succeeding or not; when it
\* fails the persisted config is unchanged, and when it succeeds the
\* persisted config differs in one setting of id only: every other module's
\* entry is the same, and id is enabled afterwards exactly if it was before
\* (a module with no entry before gets one that is not enabled).
C39_OneSetting ==
    [][\A id \in ConfiguredIds :
          (last'.cmd = "configure" /\ last'.id = id)
          => /\ UNCHANGED <<moduleDirs, cargo, modRs>>
             /\ last'.outcome # "ok" => UNCHANGED <<config, configFile>>
             /\ last'.outcome = "ok"
                  => /\ \A y \in ModuleIds \ {id} :
                          EntriesOf(loadModuleConfig, y)
                             = EntriesOf(loadModuleConfig', y)
                     /\ IsEnabled(loadModuleConfig', id)
                          <=> IsEnabled(loadModuleConfig, id)
                     /\ DifferInOneKey(SettingsOf(loadModuleConfig, id),
                                       SettingsOf(loadModuleConfig', id))]_vars

\* A setting was stored for an installed module that is not enabled, in a
\* project edited by hand, and the module is still not enabled.
C39_Witness ==
    /\ last.cmd = "configure" /\ last.outcome = "ok"
    /\ ~IsEnabled(loadModuleConfig, last.id)
    /\ Stored(loadModuleConfig) = 1
    /\ edits > 0
    /\ Installed(last.id)

\* b is reached from a along at most n non-optional dependency entries.
RECURSIVE ReachesIn(_, _, _)
ReachesIn(a, b, n) ==
    /\ n > 0
    /\ \/ Requires(a, b)
       \/ \E c \in ModuleIds : Requires(a, c) /\ ReachesIn(c, b, n - 1)

\* a lies on a cycle of non-optional dependencies.
OnCycle(a) == ReachesIn(a, a, NumModules)

\* C40: a module on a cycle of non-optional dependencies, one that requires
\* itself included, is never installed and never enabled by the commands
\* run from a new project.
C40_CycleNeverInstalled ==
    \A a \in ModuleIds : OnCycle(a) => (~Installed(a) /\ ~Enabled(a))

\* install of a module that requires, and is required by, another module
\* was refused in a project that has a third module installed.
C40_Witness ==
    /\ last.cmd = "install" /\ last.outcome = "DependencyMissing"
    /\ \E b \in ModuleIds \ {last.id} :
          Requires(last.id, b) /\ Requires(b, last.id)
    /\ moduleDirs # {}

====
